---- MODULE Spec2Model ----
(***************************************************************************)
(* State-machine model of the ReserveSection component                     *)
(* (src/src/components/sections/ReserveSection.tsx).                       *)
(*                                                                         *)
(* The component is a React function component.  Every render creates a    *)
(* new handleReserve closure over the values of that render: the props     *)
(* walletAddress / recipientAddress and the state values totalReserved,    *)
(* selectedCount and whitelist.  An invocation of handleReserve keeps      *)
(* reading the values of the render it was created in, also after it was   *)
(* suspended at an await and the component state has moved on; only the    *)
(* functional updater of setTotalReserved (line 82) reads the current      *)
(* state.  The model keeps, for every invocation, the captured values      *)
(* (closure), the await it is suspended at (pc) and the calls it has made  *)
(* so far (trace).                                                         *)
(***************************************************************************)
EXTENDS Integers, Sequences, FiniteSets, TLC

\* ---------------------------------------------------------------- bounds
\* Number of handleReserve invocations explored in one behaviour.
MaxAttempts == 2

\* ------------------------------------------------------ program constants
CAP == 333
REQUIRED_CHAIN == 33139
OTHER_CHAIN == 1
SLICE == 10
UNIT_PRICE == 2
ETHER_DECIMALS == 18

\* The quantities the user picks in the select.  The select offers 1..10
\* (line 150); these are the ones explored (1 is the useState default).
Quantities == {1, 3, 5}

\* `null` of the walletAddress prop.
NoWallet == "null"
\* The wallet addresses that may be connected.
Wallets == {"A"}
\* The recipientAddress prop.
recipientAddress == "recipient"
\* The userQualifies prop; it only enables the select and styles the button.
userQualifies == TRUE

\* error.code of a rejected SDK promise.
ErrorCodes == {"INSUFFICIENT_FUNDS", "CALL_EXCEPTION", "OTHER"}

Attempts == 1..MaxAttempts

Entry(a, c) == [address |-> a, count |-> c]

\* Lists fetchWhitelist() may resolve with: the empty store, a store where
\* wallet A already holds 2 spots, and a store close to the cap with more
\* than SLICE entries (A among them, count sum 330).
EmptyList == <<>>
SmallList == <<Entry("A", 2)>>
BigList ==
  <<Entry("F1", 30), Entry("F2", 30), Entry("A", 2), Entry("F3", 30),
    Entry("F4", 30), Entry("F5", 30), Entry("F6", 30), Entry("F7", 30),
    Entry("F8", 30), Entry("F9", 30), Entry("F10", 30), Entry("F11", 28)>>
FetchedLists == {EmptyList, SmallList, BigList}

VARIABLES
  selectedCount,   \* useState(1), line 20
  whitelist,       \* useState([]), line 21
  totalReserved,   \* useState(0), line 22
  loading,         \* useState(false), line 23
  expanded,        \* useState(false), line 24
  walletAddress,   \* prop, line 16
  fetchState,      \* the mount effect's fetchWhitelist promise
  started,         \* number of handleReserve invocations so far
  pc,              \* per invocation: the await it is suspended at
  closure,         \* per invocation: the render values it captured
  trace,           \* per invocation: the calls it has made, in order
  network,         \* per invocation: chainId of `network`, line 51
  txRequest,       \* per invocation: argument of sendTransaction
  persisted        \* per invocation: arguments of updateWhitelist

vars == <<selectedCount, whitelist, totalReserved, loading, expanded,
          walletAddress, fetchState, started, pc, closure, trace,
          network, txRequest, persisted>>

component == <<selectedCount, whitelist, totalReserved, loading, expanded>>

\* ------------------------------------------------------------ pure parts

\* fetchedWhitelist.reduce((total, entry) => total + entry.count, 0)
RECURSIVE SumCounts(_)
SumCounts(wl) ==
  IF wl = <<>> THEN 0
  ELSE SumCounts(SubSeq(wl, 1, Len(wl) - 1)) + wl[Len(wl)].count

\* Number.prototype.toString of a non-negative integer: its decimal digits.
RECURSIVE NumberToString(_)
NumberToString(n) ==
  IF n < 10 THEN <<n>> ELSE Append(NumberToString(n \div 10), n % 10)

\* The integer a digit string denotes.
RECURSIVE ParseDigits(_)
ParseDigits(s) ==
  IF s = <<>> THEN 0
  ELSE 10 * ParseDigits(SubSeq(s, 1, Len(s) - 1)) + s[Len(s)]

\* ethers.parseEther of a digit string without a fraction: that many ether,
\* i.e. ether * 10^ETHER_DECIMALS wei.  10^18 is beyond TLC's integers, so
\* the amount is kept as the pair (ether, exponent).
ParseEther(s) == [ether |-> ParseDigits(s), decimals |-> ETHER_DECIMALS]

\* Variant of Amount that forgets the unit price.
AmountUnscaled(count) == ParseEther(NumberToString(count))

\* line 63
Amount(count) == ParseEther(NumberToString(count * UNIT_PRICE))

\* Variant of WalletMissing that lets a null wallet through.
WalletNeverMissing(w) == FALSE

\* line 42
WalletMissing(w) == w = NoWallet

\* Variant of WrongNetwork that accepts every chain.
WrongNetworkIgnored(chainId) == FALSE

\* line 53
WrongNetwork(chainId) == chainId # REQUIRED_CHAIN

\* line 58
CapExceeded(total, count) == total + count > CAP

\* whitelist.some((entry) => entry.address === addr), line 77
HasEntry(wl, addr) == \E k \in 1..Len(wl) : wl[k].address = addr

\* lines 71-79
UpdatedWhitelist(wl, addr, count) ==
  LET mapped == [k \in 1..Len(wl) |->
                   IF wl[k].address = addr
                     THEN [wl[k] EXCEPT !.count = wl[k].count + count]
                     ELSE wl[k]]
  IN IF ~HasEntry(wl, addr) THEN Append(mapped, Entry(addr, count))
     ELSE mapped

\* the updater of line 82
NextTotal(prevTotal, count) == prevTotal + count

\* the arguments of line 84
PersistArgs(addr, count) == [address |-> addr, count |-> count]

\* Array.prototype.slice(start) for a negative start.
SliceFrom(wl, start) ==
  LET from == IF Len(wl) + start < 0 THEN 0 ELSE Len(wl) + start
  IN SubSeq(wl, from + 1, Len(wl))

\* Variant of Displayed that keeps the first entries (slice(0, 10)).
DisplayedFirst(wl, exp) ==
  IF exp THEN wl
  ELSE SubSeq(wl, 1, IF Len(wl) < SLICE THEN Len(wl) ELSE SLICE)

\* line 113
Displayed(wl, exp) == IF exp THEN wl ELSE SliceFrom(wl, -SLICE)

\* the updater of line 111
ToggleOf(prev) == ~prev

\* the catch block, lines 90-104
AlertFor(code) ==
  IF code = "INSUFFICIENT_FUNDS" THEN "alert:insufficient-funds"
  ELSE IF code = "CALL_EXCEPTION" THEN "alert:call-exception"
  ELSE "alert:generic"

\* Variant of the finally block that leaves loading on.
LoadingLeftOn == TRUE

\* the finally block, line 106
LoadingAfterFinally == FALSE

\* -------------------------------------------------------------- initial

NoClosure ==
  [walletAddress |-> NoWallet, totalReserved |-> 0, selectedCount |-> 1,
   whitelist |-> <<>>]
NoNetwork == 0
NoTx == [to |-> "none", value |-> [ether |-> 0, decimals |-> 0]]
NoPersist == [address |-> "none", count |-> 0]

Init ==
  /\ selectedCount = 1
  /\ whitelist = <<>>
  /\ totalReserved = 0
  /\ loading = FALSE
  /\ expanded = FALSE
  /\ walletAddress = NoWallet
  /\ fetchState = "pending"
  /\ started = 0
  /\ pc = [i \in Attempts |-> "idle"]
  /\ closure = [i \in Attempts |-> NoClosure]
  /\ trace = [i \in Attempts |-> <<>>]
  /\ network = [i \in Attempts |-> NoNetwork]
  /\ txRequest = [i \in Attempts |-> NoTx]
  /\ persisted = [i \in Attempts |-> NoPersist]

\* -------------------------------------------------------------- actions

\* lines 29-33: fetchWhitelist() resolved
LoadWhitelistResolve(fetched) ==
  /\ fetchState = "pending"
  /\ fetchState' = "loaded"
  /\ whitelist' = fetched
  /\ totalReserved' = SumCounts(fetched)
  /\ UNCHANGED <<selectedCount, loading, expanded, walletAddress, started,
                 pc, closure, network, trace, txRequest, persisted>>

\* lines 34-36: fetchWhitelist() rejected
LoadWhitelistReject ==
  /\ fetchState = "pending"
  /\ fetchState' = "failed"
  /\ UNCHANGED <<component, walletAddress, started, pc, closure, network, trace,
                 txRequest, persisted>>

\* the parent re-renders the section with another walletAddress.  The prop
\* is read only when handleReserve is invoked, so changes after the last
\* explored invocation are not explored.
WalletChange(w) ==
  /\ started < MaxAttempts
  /\ w # walletAddress
  /\ walletAddress' = w
  /\ UNCHANGED <<component, fetchState, started, pc, closure, network, trace,
                 txRequest, persisted>>

\* lines 143-148: onChange of the select (disabled when full).  As for
\* WalletChange, selections after the last explored invocation are left out.
SetSelectedCount(q) ==
  /\ started < MaxAttempts
  /\ ~(totalReserved >= CAP \/ ~userQualifies)
  /\ q # selectedCount
  /\ selectedCount' = q
  /\ UNCHANGED <<whitelist, totalReserved, loading, expanded, walletAddress,
                 fetchState, started, pc, closure, network, trace, txRequest,
                 persisted>>

\* lines 111, 196-200: the toggle button exists when whitelist.length > 10
ToggleExpanded ==
  /\ Len(whitelist) > SLICE
  /\ expanded' = ToggleOf(expanded)
  /\ UNCHANGED <<selectedCount, whitelist, totalReserved, loading,
                 walletAddress, fetchState, started, pc, closure, network, trace,
                 txRequest, persisted>>

Log(i, events) == trace' = [trace EXCEPT ![i] = trace[i] \o events]
Goto(i, where) == pc' = [pc EXCEPT ![i] = where]

\* lines 41-50: handleReserve of the current render is invoked and runs to
\* its first await (or to the return of line 44)
HandleReserve ==
  /\ started < MaxAttempts
  /\ started' = started + 1
  /\ LET i == started + 1 IN
       /\ closure' = [closure EXCEPT ![i] =
            [walletAddress |-> walletAddress, totalReserved |-> totalReserved,
             selectedCount |-> selectedCount, whitelist |-> whitelist]]
       /\ IF WalletMissing(walletAddress)
            THEN /\ Log(i, <<"alert:connect-wallet">>)
                 /\ Goto(i, "done")
                 /\ UNCHANGED loading
            ELSE /\ loading' = TRUE
                 /\ Log(i, <<"setLoading:true", "getSigner">>)
                 /\ Goto(i, "getSigner")
  /\ UNCHANGED <<selectedCount, whitelist, totalReserved, expanded,
                 walletAddress, fetchState, network, txRequest, persisted>>

\* line 50 resolved, line 51 called
GetSignerResolve(i) ==
  /\ pc[i] = "getSigner"
  /\ Log(i, <<"getNetwork">>)
  /\ Goto(i, "getNetwork")
  /\ UNCHANGED <<component, walletAddress, fetchState, started, closure, network,
                 txRequest, persisted>>

\* line 51 resolved with chainId; lines 53-67 up to the next await
GetNetworkResolve(i, chainId) ==
  /\ pc[i] = "getNetwork"
  /\ network' = [network EXCEPT ![i] = chainId]
  /\ IF WrongNetwork(chainId)
       THEN /\ Log(i, <<"switchToApeChain">>)
            /\ Goto(i, "switchToApeChain")
            /\ UNCHANGED <<loading, txRequest>>
       ELSE IF CapExceeded(closure[i].totalReserved, closure[i].selectedCount)
         THEN /\ Log(i, <<"alert:limit-reached", "setLoading:false">>)
              /\ loading' = LoadingAfterFinally
              /\ Goto(i, "done")
              /\ UNCHANGED txRequest
         ELSE /\ Log(i, <<"sendTransaction">>)
              /\ txRequest' = [txRequest EXCEPT ![i] =
                   [to |-> recipientAddress,
                    value |-> Amount(closure[i].selectedCount)]]
              /\ Goto(i, "sendTransaction")
              /\ UNCHANGED loading
  /\ UNCHANGED <<selectedCount, whitelist, totalReserved, expanded,
                 walletAddress, fetchState, started, closure, persisted>>

\* line 54 resolved, line 55 returns through the finally block
SwitchResolve(i) ==
  /\ pc[i] = "switchToApeChain"
  /\ Log(i, <<"setLoading:false">>)
  /\ loading' = LoadingAfterFinally
  /\ Goto(i, "done")
  /\ UNCHANGED <<selectedCount, whitelist, totalReserved, expanded,
                 walletAddress, fetchState, started, closure, network, txRequest,
                 persisted>>

\* line 64 resolved, line 69 called
SendTransactionResolve(i) ==
  /\ pc[i] = "sendTransaction"
  /\ Log(i, <<"tx.wait">>)
  /\ Goto(i, "tx.wait")
  /\ UNCHANGED <<component, walletAddress, fetchState, started, closure, network,
                 txRequest, persisted>>

\* line 69 resolved; lines 71-84 up to the await of updateWhitelist
WaitResolve(i) ==
  /\ pc[i] = "tx.wait"
  /\ whitelist' = UpdatedWhitelist(closure[i].whitelist,
                                   closure[i].walletAddress,
                                   closure[i].selectedCount)
  /\ totalReserved' = NextTotal(totalReserved, closure[i].selectedCount)
  /\ persisted' = [persisted EXCEPT ![i] =
       PersistArgs(closure[i].walletAddress, closure[i].selectedCount)]
  /\ Log(i, <<"setWhitelist", "setTotalReserved", "updateWhitelist">>)
  /\ Goto(i, "updateWhitelist")
  /\ UNCHANGED <<selectedCount, loading, expanded, walletAddress, fetchState,
                 started, closure, network, txRequest>>

\* line 84 resolved, line 86, then the finally block
UpdateWhitelistResolve(i) ==
  /\ pc[i] = "updateWhitelist"
  /\ Log(i, <<"alert:success", "setLoading:false">>)
  /\ loading' = LoadingAfterFinally
  /\ Goto(i, "done")
  /\ UNCHANGED <<selectedCount, whitelist, totalReserved, expanded,
                 walletAddress, fetchState, started, closure, network, txRequest,
                 persisted>>

AwaitPoints ==
  {"getSigner", "getNetwork", "switchToApeChain", "sendTransaction",
   "tx.wait", "updateWhitelist"}

\* lines 87-107: the awaited promise rejected with error.code = code
AwaitReject(i, code) ==
  /\ pc[i] \in AwaitPoints
  /\ Log(i, <<AlertFor(code), "setLoading:false">>)
  /\ loading' = LoadingAfterFinally
  /\ Goto(i, "done")
  /\ UNCHANGED <<selectedCount, whitelist, totalReserved, expanded,
                 walletAddress, fetchState, started, closure, network, txRequest,
                 persisted>>

AttemptStep(i) ==
  \/ GetSignerResolve(i)
  \/ \E chainId \in {REQUIRED_CHAIN, OTHER_CHAIN} : GetNetworkResolve(i, chainId)
  \/ SwitchResolve(i)
  \/ SendTransactionResolve(i)
  \/ WaitResolve(i)
  \/ UpdateWhitelistResolve(i)
  \/ \E code \in ErrorCodes : AwaitReject(i, code)

Next ==
  \/ \E fetched \in FetchedLists : LoadWhitelistResolve(fetched)
  \/ LoadWhitelistReject
  \/ \E w \in Wallets \cup {NoWallet} : WalletChange(w)
  \/ \E q \in Quantities : SetSelectedCount(q)
  \/ ToggleExpanded
  \/ HandleReserve
  \/ \E i \in Attempts : AttemptStep(i)

Spec == Init /\ [][Next]_vars

\* Every awaited SDK promise eventually resolves or rejects.
LiveSpec == Spec /\ \A i \in Attempts : WF_vars(AttemptStep(i))

\* ------------------------------------------------------------ properties

Range(seq) == {seq[k] : k \in 1..Len(seq)}

\* The step in which invocation i performs lines 71-84.
Confirms(i) == pc[i] = "tx.wait" /\ pc'[i] = "updateWhitelist"

\* The count of addr's entry in wl (0 when it has none).
CountOf(wl, addr) ==
  IF HasEntry(wl, addr)
    THEN wl[CHOOSE k \in 1..Len(wl) : wl[k].address = addr].count
    ELSE 0

\* C1: every list fetchWhitelist can resolve with sums to at most 333, and
\* then in every reachable state totalReserved and the count sum of the
\* local whitelist are at most 333.
C1_TotalWithinCap ==
  (\A l \in FetchedLists : SumCounts(l) <= CAP)
    => (totalReserved <= CAP /\ SumCounts(whitelist) <= CAP)

\* C2: an invocation that reaches the cap check (getNetwork resolved) while
\* the component's totalReserved plus its requested quantity exceeds 333
\* does not call sendTransaction or updateWhitelist and leaves whitelist and
\* totalReserved as they were.
C2_RejectsOverCap ==
  [][\A i \in Attempts :
       (pc[i] = "getNetwork" /\ pc'[i] # "getNetwork"
        /\ totalReserved + closure[i].selectedCount > CAP)
       => /\ pc'[i] # "sendTransaction"
          /\ txRequest'[i] = NoTx
          /\ persisted'[i] = NoPersist
          /\ UNCHANGED <<whitelist, totalReserved>>]_vars

\* C3: a confirmed payment of q by A appends exactly one entry {A, q} to
\* the local whitelist when it holds no entry for A, and otherwise adds q to
\* A's entry; every other entry stays as it was and no entry is added.
C3_MergeOrAppend ==
  [][\A i \in Attempts : Confirms(i) =>
       LET a == closure[i].walletAddress
           q == closure[i].selectedCount
       IN IF ~HasEntry(whitelist, a)
            THEN whitelist' = Append(whitelist, Entry(a, q))
            ELSE /\ Len(whitelist') = Len(whitelist)
                 /\ \A k \in 1..Len(whitelist) :
                      whitelist'[k] =
                        IF whitelist[k].address = a
                          THEN Entry(a, whitelist[k].count + q)
                          ELSE whitelist[k]]_vars

\* C4: in every reachable state totalReserved is the count sum of the
\* local whitelist (so the displayed 333 - totalReserved is 333 minus that
\* sum).
C4_TotalIsListSum == totalReserved = SumCounts(whitelist)

\* C5: the count handed to updateWhitelist after a confirmed payment is the
\* count the local entry of that address holds after the update, i.e. its
\* previous local count plus q.
C5_PersistsNewCount ==
  [][\A i \in Attempts : Confirms(i) =>
       LET a == closure[i].walletAddress
           q == closure[i].selectedCount
       IN /\ persisted'[i].address = a
          /\ persisted'[i].count = CountOf(whitelist', a)
          /\ persisted'[i].count = CountOf(whitelist, a) + q]_vars

IsPrefix(p, seq) == Len(p) <= Len(seq) /\ SubSeq(seq, 1, Len(p)) = p
Occurrences(seq, x) == Cardinality({k \in 1..Len(seq) : seq[k] = x})
Min(a, b) == IF a < b THEN a ELSE b

\* What an invocation has done when it has called switchToApeChain.
SwitchTrace ==
  <<"setLoading:true", "getSigner", "getNetwork", "switchToApeChain">>

\* C6: an invocation whose getNetwork reported a chain id other than 33139
\* calls switchToApeChain once and ends: it reports no cap check, never
\* calls sendTransaction or updateWhitelist, queries the network only once
\* (no retry), and none of its steps changes whitelist or totalReserved or
\* starts another invocation.
C6_WrongNetworkAbandons ==
  /\ [](\A i \in Attempts :
          (network[i] # NoNetwork /\ network[i] # REQUIRED_CHAIN) =>
            /\ IsPrefix(SwitchTrace, trace[i])
            /\ Occurrences(trace[i], "switchToApeChain") = 1
            /\ Occurrences(trace[i], "getNetwork") = 1
            /\ Range(trace[i]) \cap
                 {"alert:limit-reached", "sendTransaction", "tx.wait",
                  "setWhitelist", "setTotalReserved", "updateWhitelist",
                  "alert:success"} = {}
            /\ txRequest[i] = NoTx
            /\ persisted[i] = NoPersist
            /\ pc[i] \in {"switchToApeChain", "done"})
  /\ [][\A i \in Attempts :
          (network'[i] # NoNetwork /\ network'[i] # REQUIRED_CHAIN
           /\ pc'[i] # pc[i])
          => UNCHANGED <<whitelist, totalReserved, started>>]_vars

C6_Witness ==
  \E i \in Attempts :
    /\ pc[i] = "done"
    /\ network[i] = OTHER_CHAIN
    /\ trace[i] = SwitchTrace \o <<"setLoading:false">>

Ended == \A i \in Attempts : pc[i] \in {"idle", "done"}

\* C7: every invocation that set loading to true starts with that call,
\* eventually ends, and ends with setLoading(false) whatever its outcome;
\* loading is false whenever no invocation is in flight, and loading never
\* stays true forever.
C7_LoadingReturnsToIdle ==
  /\ [](\A i \in Attempts :
          /\ pc[i] \in AwaitPoints => trace[i][1] = "setLoading:true"
          /\ (pc[i] = "done" /\ "setLoading:true" \in Range(trace[i]))
               => trace[i][Len(trace[i])] = "setLoading:false")
  /\ [](Ended => loading = FALSE)
  /\ \A i \in Attempts : (pc[i] \in AwaitPoints) ~> (pc[i] = "done")
  /\ (loading = TRUE) ~> (loading = FALSE)

C7_Witness ==
  /\ Ended
  /\ loading = FALSE
  /\ \E i \in Attempts : "alert:call-exception" \in Range(trace[i])
  /\ \E i \in Attempts : "alert:success" \in Range(trace[i])

\* C8: an invocation made while walletAddress is null only shows the
\* connect-wallet alert: it ends at once, loading and every other piece of
\* component state stay as they were, and it never reaches getSigner,
\* getNetwork, switchToApeChain, sendTransaction or updateWhitelist.
C8_NoWalletNoEffect ==
  /\ [][\A i \in Attempts :
          (pc[i] = "idle" /\ pc'[i] # "idle" /\ walletAddress = NoWallet)
          => /\ pc'[i] = "done"
             /\ trace'[i] = <<"alert:connect-wallet">>
             /\ UNCHANGED <<selectedCount, whitelist, totalReserved, loading,
                            expanded, walletAddress, fetchState, network,
                            txRequest, persisted>>]_vars
  /\ [](\A i \in Attempts :
          (pc[i] # "idle" /\ closure[i].walletAddress = NoWallet)
          => /\ pc[i] = "done"
             /\ trace[i] = <<"alert:connect-wallet">>
             /\ network[i] = NoNetwork
             /\ txRequest[i] = NoTx
             /\ persisted[i] = NoPersist)

C8_Witness ==
  \E i \in Attempts :
    /\ pc[i] = "done"
    /\ closure[i].walletAddress = NoWallet
    /\ trace[i] = <<"alert:connect-wallet">>

\* The last n entries of wl, in order.
LastEntries(wl, n) == [k \in 1..n |-> wl[Len(wl) - n + k]]
Prefixes(wl) == {SubSeq(wl, 1, n) : n \in 0..Len(wl)}

\* C9: for the whitelist and each of its prefixes, the collapsed view is
\* the last min(10, length) entries in order and the expanded view is the
\* whole list; toggling twice gives the original view; a step that changes
\* expanded negates it and changes nothing else.
C9_DisplayedList ==
  /\ [](\A wl \in Prefixes(whitelist) :
          /\ Displayed(wl, FALSE) = LastEntries(wl, Min(SLICE, Len(wl)))
          /\ Displayed(wl, TRUE) = wl
          /\ \A e \in BOOLEAN :
               Displayed(wl, ToggleOf(ToggleOf(e))) = Displayed(wl, e))
  /\ [][expanded' # expanded
          => /\ expanded' = ~expanded
             /\ UNCHANGED <<selectedCount, whitelist, totalReserved, loading,
                            walletAddress, fetchState, started, pc, closure,
                            trace, network, txRequest, persisted>>]_vars

C9_Witness ==
  /\ expanded = TRUE
  /\ Len(whitelist) > SLICE
  /\ Displayed(whitelist, FALSE) # Displayed(whitelist, TRUE)
  /\ Len(Displayed(whitelist, FALSE)) = SLICE

\* The calls of one invocation that the order is about.
OrderedSteps ==
  <<"getNetwork", "sendTransaction", "tx.wait", "setWhitelist",
    "setTotalReserved", "updateWhitelist">>
IsOrderedStep(x) == x \in Range(OrderedSteps)

\* C10: the calls of one invocation occur in the order getNetwork,
\* sendTransaction, tx.wait, local update, updateWhitelist; the transfer is
\* sent only on chain 33139 with the captured total within the cap, to the
\* recipient, for q x 2 ether; whitelist, totalReserved and the remote
\* write change only in the step that follows the confirmation (or by the
\* mount-time load), and a failure at getSigner, getNetwork,
\* sendTransaction or tx.wait leaves them untouched.
C10_StepsInOrder ==
  /\ [](\A i \in Attempts :
          /\ IsPrefix(SelectSeq(trace[i], IsOrderedStep), OrderedSteps)
          /\ "sendTransaction" \in Range(trace[i])
               => /\ network[i] = REQUIRED_CHAIN
                  /\ closure[i].totalReserved + closure[i].selectedCount <= CAP
                  /\ txRequest[i] =
                       [to |-> recipientAddress,
                        value |-> [ether |-> closure[i].selectedCount * 2,
                                   decimals |-> 18]]
          /\ persisted[i] # NoPersist <=> "updateWhitelist" \in Range(trace[i]))
  /\ [][/\ (whitelist' # whitelist \/ totalReserved' # totalReserved
            \/ persisted' # persisted)
           => (fetchState' # fetchState \/ \E i \in Attempts : Confirms(i))
        /\ \A i \in Attempts :
             (pc[i] \in {"getSigner", "getNetwork", "sendTransaction", "tx.wait"}
              /\ pc'[i] = "done")
             => /\ UNCHANGED <<whitelist, totalReserved>>
                /\ persisted'[i] = NoPersist]_vars

C10_Witness ==
  \E i \in Attempts :
    /\ pc[i] = "done"
    /\ SelectSeq(trace[i], IsOrderedStep) = OrderedSteps
    /\ "alert:success" \in Range(trace[i])
    /\ txRequest[i].value.ether = 10

====
